---- MODULE Spec2Model ----
(***************************************************************************)
(* window-vibrancy: the dispatch facade of src/lib.rs over the Windows and *)
(* macOS adapters.  The facade (apply_blur .. apply_vibrancy, Error and    *)
(* its Display) is translated from src/lib.rs.  The adapter modules        *)
(* `windows` and `macos` are declared in lib.rs (lines 20-21) but their    *)
(* bodies are not part of the sources at hand; they are modelled from the  *)
(* design document (sections 4.2 and 4.3) and named windows_* / macos_*.   *)
(***************************************************************************)
EXTENDS Integers, Sequences, FiniteSets, TLC

VARIABLES
  target_os,       \* cfg(target_os): fixed when the crate is compiled
  build,           \* the OS build number the Windows adapter reads per call
  blur_gap_fails,  \* whether blur is refused between Windows 7 and the modern build
  on_main_thread,  \* whether the caller currently runs on the main thread
  windows,         \* hwnd -> the OS-held backdrop attributes of that window
  views,           \* ns_window -> subviews of its content view, lowest first
  last             \* the most recent facade call: inputs, result, delegation

vars == <<target_os, build, blur_gap_fails, on_main_thread, windows, views, last>>

----------------------------------------------------------------------------
(* Bounds and input sets *)

MaxSubviews == 2

\* The native pointers (hwnd / ns_window) of the two windows of the caller.
Ptrs == {1, 2}

TargetOses == {"windows", "macos", "linux"}

\* RawWindowHandle variants: the two the facade matches on, and one other.
Tags == {"Win32", "AppKit", "Xlib"}

\* A handle of a windowing system neither adapter knows carries one pointer.
Handles == [tag : {"Win32", "AppKit"}, ptr : Ptrs] \cup {[tag |-> "Xlib", ptr |-> 1]}

None == <<>>

\* Color = (u8, u8, u8, u8)
Colors == {<<18, 18, 18, 125>>, <<255, 0, 64, 1>>}

OptColors == {None} \cup Colors

Materials == {"AppearanceBased", "Dark"}

NoEffect == "-"

WIN7_BUILD == 7601
MODERN_BUILD == 17763
MICA_BUILD == 22000

\* Windows 7, and the builds just below and at each threshold.
Builds == {WIN7_BUILD, MODERN_BUILD - 1, MODERN_BUILD, MICA_BUILD - 1, MICA_BUILD}

OpNames ==
  {"apply_blur", "clear_blur", "apply_acrylic", "clear_acrylic",
   "apply_mica", "clear_mica", "apply_vibrancy"}

----------------------------------------------------------------------------
(* Error / Result model *)

Ok == [kind |-> "Ok", msg |-> <<>>]

UnsupportedPlatform(m) == [kind |-> "UnsupportedPlatform", msg |-> m]

UnsupportedPlatformVersion(m) == [kind |-> "UnsupportedPlatformVersion", msg |-> m]

NotMainThread(m) == [kind |-> "NotMainThread", msg |-> m]

\* impl Display for Error: writes the carried message, whatever the kind.
fmt(e) == e.msg

\* What one call leaves behind: its result, the OS state, the adapter
\* function the facade delegated to (with its arguments), the OS calls made.
Outcome(res, wins, vws, oscalls) ==
  [res |-> res, windows |-> wins, views |-> vws, calls |-> <<>>, os_calls |-> oscalls]

Fail(err) == Outcome(err, windows, views, <<>>)

Delegated(fn, ptr, color, effect, out) ==
  [out EXCEPT !.calls = <<[fn |-> fn, ptr |-> ptr, color |-> color, effect |-> effect,
                           ret |-> out.res]>>]

----------------------------------------------------------------------------
(* Windows adapter (module `windows`) *)

NoBackdrop ==
  [ex_blur |-> FALSE, accent |-> "none", accent_color |-> <<0, 0, 0, 0>>,
   backdrop |-> "none"]

\* The backdrops the OS holds for window p, as read back from its attributes.
BackdropsSet(p) ==
  (IF windows[p].ex_blur \/ windows[p].accent = "blur" THEN {"blur"} ELSE {})
  \cup (IF windows[p].accent = "acrylic" THEN {"acrylic"} ELSE {})
  \cup (IF windows[p].backdrop = "mica" THEN {"mica"} ELSE {})

DEFAULT_COLOR == <<18, 18, 18, 125>>

\* Position i of the packed structure holds channel ChannelOrder[i] of (r,g,b,a).
ChannelOrder == <<1, 2, 3, 4>>

PackColor(color) ==
  LET c == IF color = None THEN DEFAULT_COLOR ELSE color
  IN  [i \in 1..4 |-> c[ChannelOrder[i]] % 256]

is_win7 == build = WIN7_BUILD

is_modern == build >= MODERN_BUILD

\* Blur is documented for Windows 7 and from the modern build on.  The design
\* names no failure of blur on the builds in between, the doc comments say
\* it works only on the former: both readings are kept (blur_gap_fails).
is_legacy_blur == is_win7 \/ ~blur_gap_fails

BlurUnsupported(name) ==
  UnsupportedPlatformVersion(
    <<"\"", name, "()", "\"",
      " is only available on Windows 7, Windows 10 v1809 or newer and Windows 11.">>)

is_mica_supported == build >= MICA_BUILD

SetWindowCompositionAttribute(hwnd, accent, packed) ==
  [windows EXCEPT ![hwnd] =
     [@ EXCEPT !.accent = accent, !.accent_color = packed]]

SetBackdropType(wins, hwnd, type) ==
  [wins EXCEPT ![hwnd] = [@ EXCEPT !.backdrop = type]]

SetBlurBehind(hwnd, enable) ==
  [windows EXCEPT ![hwnd] = [@ EXCEPT !.ex_blur = enable]]

windows_apply_blur(hwnd, color) ==
  IF is_modern
  THEN Outcome(Ok,
         SetBackdropType(
           SetWindowCompositionAttribute(hwnd, "blur", PackColor(color)),
           hwnd, "none"),
         views, <<"SetWindowCompositionAttribute">>)
  ELSE IF is_legacy_blur
       THEN Outcome(Ok, SetBlurBehind(hwnd, TRUE), views, <<"SetBlurBehind">>)
       ELSE Fail(BlurUnsupported("apply_blur"))

windows_clear_blur(hwnd) ==
  IF is_modern
  THEN Outcome(Ok,
         SetWindowCompositionAttribute(hwnd, "none", NoBackdrop.accent_color),
         views, <<"SetWindowCompositionAttribute">>)
  ELSE IF is_legacy_blur
       THEN Outcome(Ok, SetBlurBehind(hwnd, FALSE), views, <<"SetBlurBehind">>)
       ELSE Fail(BlurUnsupported("clear_blur"))

windows_apply_acrylic(hwnd, color) ==
  IF is_modern
  THEN Outcome(Ok,
         SetBackdropType(
           SetWindowCompositionAttribute(hwnd, "acrylic", PackColor(color)),
           hwnd, "none"),
         views, <<"SetWindowCompositionAttribute">>)
  ELSE Fail(UnsupportedPlatformVersion(
         <<"\"", "apply_acrylic", "()", "\"",
           " is only available on Windows 10 v1809 or newer and Windows 11.">>))

windows_clear_acrylic(hwnd) ==
  IF is_modern
  THEN Outcome(Ok,
         SetWindowCompositionAttribute(hwnd, "none", NoBackdrop.accent_color),
         views, <<"SetWindowCompositionAttribute">>)
  ELSE Fail(UnsupportedPlatformVersion(
         <<"\"", "clear_acrylic", "()", "\"",
           " is only available on Windows 10 v1809 or newer and Windows 11.">>))

windows_apply_mica(hwnd) ==
  IF is_mica_supported
  THEN Outcome(Ok,
         SetBackdropType(
           SetWindowCompositionAttribute(hwnd, "none", NoBackdrop.accent_color),
           hwnd, "mica"),
         views, <<"SetWindowCompositionAttribute", "SetBackdropType">>)
  ELSE Fail(UnsupportedPlatformVersion(
         <<"\"", "apply_mica", "()", "\"", " is only available on Windows 11.">>))

windows_clear_mica(hwnd) ==
  IF is_mica_supported
  THEN Outcome(Ok, SetBackdropType(windows, hwnd, "none"), views,
               <<"SetBackdropType">>)
  ELSE Fail(UnsupportedPlatformVersion(
         <<"\"", "clear_mica", "()", "\"", " is only available on Windows 11.">>))

----------------------------------------------------------------------------
(* macOS adapter (module `macos`) *)

VibrantId == "vibrant-background"

AppView == [identifier |-> "app", material |-> NoEffect, blending |-> NoEffect,
            state |-> NoEffect]

EffectView(material) ==
  [identifier |-> VibrantId, material |-> material,
   blending |-> "behindWindow", state |-> "followsWindowActiveState"]

IsVibrant(v) == v.identifier = VibrantId

macos_apply_vibrancy(ns_window, effect) ==
  IF ~on_main_thread
  THEN Fail(NotMainThread(
         <<"\"", "apply_vibrancy", "()", "\"",
           " can only be used on the main thread.">>))
  ELSE LET subs == views[ns_window]
           rest == SelectSeq(subs, LAMBDA v : ~IsVibrant(v))
       IN  Outcome(Ok, windows,
                   [views EXCEPT ![ns_window] = <<EffectView(effect)>> \o rest],
                   IF Len(rest) = Len(subs)
                   THEN <<"initWithFrame", "addSubview">>
                   ELSE <<"setMaterial", "addSubview">>)

----------------------------------------------------------------------------
(* Facade: src/lib.rs *)

\* Slip: the colour is dropped on the way to the adapter.
apply_blur_drops_color(window, color) ==
  IF target_os = "windows" /\ window.tag = "Win32"
  THEN Delegated("windows::apply_blur", window.ptr, None, NoEffect,
                 windows_apply_blur(window.ptr, None))
  ELSE Fail(UnsupportedPlatform(
         <<"\"", "apply_blur", "()", "\"", " is only supported on ", "Windows", ".">>))

apply_blur(window, color) ==
  IF target_os = "windows" /\ window.tag = "Win32"
  THEN Delegated("windows::apply_blur", window.ptr, color, NoEffect,
                 windows_apply_blur(window.ptr, color))
  ELSE Fail(UnsupportedPlatform(
         <<"\"", "apply_blur", "()", "\"", " is only supported on ", "Windows", ".">>))

\* Slip: the clear entry point delegates to the apply function.
clear_blur_calls_apply(window) ==
  IF target_os = "windows" /\ window.tag = "Win32"
  THEN Delegated("windows::apply_blur", window.ptr, None, NoEffect,
                 windows_apply_blur(window.ptr, None))
  ELSE Fail(UnsupportedPlatform(
         <<"\"", "clear_blur", "()", "\"", " is only supported on ", "Windows", ".">>))

clear_blur(window) ==
  IF target_os = "windows" /\ window.tag = "Win32"
  THEN Delegated("windows::clear_blur", window.ptr, None, NoEffect,
                 windows_clear_blur(window.ptr))
  ELSE Fail(UnsupportedPlatform(
         <<"\"", "clear_blur", "()", "\"", " is only supported on ", "Windows", ".">>))

\* Slip: the acrylic entry point delegates to the blur function.
apply_acrylic_calls_blur(window, color) ==
  IF target_os = "windows" /\ window.tag = "Win32"
  THEN Delegated("windows::apply_blur", window.ptr, color, NoEffect,
                 windows_apply_blur(window.ptr, color))
  ELSE Fail(UnsupportedPlatform(
         <<"\"", "apply_acrylic", "()", "\"", " is only supported on ", "Windows", ".">>))

\* Slip: the colour, marked allow(unused), is not passed on.
apply_acrylic_ignores_color(window, color) ==
  IF target_os = "windows" /\ window.tag = "Win32"
  THEN Delegated("windows::apply_acrylic", window.ptr, color, NoEffect,
                 windows_apply_acrylic(window.ptr, None))
  ELSE Fail(UnsupportedPlatform(
         <<"\"", "apply_acrylic", "()", "\"", " is only supported on ", "Windows", ".">>))

apply_acrylic(window, color) ==
  IF target_os = "windows" /\ window.tag = "Win32"
  THEN Delegated("windows::apply_acrylic", window.ptr, color, NoEffect,
                 windows_apply_acrylic(window.ptr, color))
  ELSE Fail(UnsupportedPlatform(
         <<"\"", "apply_acrylic", "()", "\"", " is only supported on ", "Windows", ".">>))

\* Slip: the clear entry point delegates to the apply function.
clear_acrylic_calls_apply(window) ==
  IF target_os = "windows" /\ window.tag = "Win32"
  THEN Delegated("windows::apply_acrylic", window.ptr, None, NoEffect,
                 windows_apply_acrylic(window.ptr, None))
  ELSE Fail(UnsupportedPlatform(
         <<"\"", "clear_acrylic", "()", "\"", " is only supported on ", "Windows", ".">>))

clear_acrylic(window) ==
  IF target_os = "windows" /\ window.tag = "Win32"
  THEN Delegated("windows::clear_acrylic", window.ptr, None, NoEffect,
                 windows_clear_acrylic(window.ptr))
  ELSE Fail(UnsupportedPlatform(
         <<"\"", "clear_acrylic", "()", "\"", " is only supported on ", "Windows", ".">>))

\* Slip: the match arm lost its handle pattern and takes every handle.
apply_mica_any_handle(window) ==
  IF target_os = "windows"
  THEN Delegated("windows::apply_mica", window.ptr, None, NoEffect,
                 windows_apply_mica(window.ptr))
  ELSE Fail(UnsupportedPlatform(
         <<"\"", "apply_mica", "()", "\"", " is only supported on ", "Windows", ".">>))

\* Slip: the apply entry point delegates to the clear function.
apply_mica_calls_clear(window) ==
  IF target_os = "windows" /\ window.tag = "Win32"
  THEN Delegated("windows::clear_mica", window.ptr, None, NoEffect,
                 windows_clear_mica(window.ptr))
  ELSE Fail(UnsupportedPlatform(
         <<"\"", "apply_mica", "()", "\"", " is only supported on ", "Windows", ".">>))

apply_mica(window) ==
  IF target_os = "windows" /\ window.tag = "Win32"
  THEN Delegated("windows::apply_mica", window.ptr, None, NoEffect,
                 windows_apply_mica(window.ptr))
  ELSE Fail(UnsupportedPlatform(
         <<"\"", "apply_mica", "()", "\"", " is only supported on ", "Windows", ".">>))

\* Slip: the message was copied from apply_mica and not edited.
clear_mica_copied_message(window) ==
  IF target_os = "windows" /\ window.tag = "Win32"
  THEN Delegated("windows::clear_mica", window.ptr, None, NoEffect,
                 windows_clear_mica(window.ptr))
  ELSE Fail(UnsupportedPlatform(
         <<"\"", "apply_mica", "()", "\"", " is only supported on ", "Windows", ".">>))

clear_mica(window) ==
  IF target_os = "windows" /\ window.tag = "Win32"
  THEN Delegated("windows::clear_mica", window.ptr, None, NoEffect,
                 windows_clear_mica(window.ptr))
  ELSE Fail(UnsupportedPlatform(
         <<"\"", "clear_mica", "()", "\"", " is only supported on ", "Windows", ".">>))

\* Slip: the arm is gated on the wrong target, so it is never compiled in.
apply_vibrancy_wrong_cfg(window, effect) ==
  IF target_os = "windows" /\ window.tag = "AppKit"
  THEN Delegated("macos::apply_vibrancy", window.ptr, None, effect,
                 macos_apply_vibrancy(window.ptr, effect))
  ELSE Fail(UnsupportedPlatform(
         <<"\"", "apply_vibrancy", "()", "\"", " is only supported on ", "macOS", ".">>))

\* Slip: the material is not passed on; the adapter gets a fixed one.
apply_vibrancy_fixed_material(window, effect) ==
  IF target_os = "macos" /\ window.tag = "AppKit"
  THEN Delegated("macos::apply_vibrancy", window.ptr, None, effect,
                 macos_apply_vibrancy(window.ptr, "AppearanceBased"))
  ELSE Fail(UnsupportedPlatform(
         <<"\"", "apply_vibrancy", "()", "\"", " is only supported on ", "macOS", ".">>))

apply_vibrancy(window, effect) ==
  IF target_os = "macos" /\ window.tag = "AppKit"
  THEN Delegated("macos::apply_vibrancy", window.ptr, None, effect,
                 macos_apply_vibrancy(window.ptr, effect))
  ELSE Fail(UnsupportedPlatform(
         <<"\"", "apply_vibrancy", "()", "\"", " is only supported on ", "macOS", ".">>))

----------------------------------------------------------------------------
(* State machine: one action per facade operation, plus the caller's own   *)
(* moves (adding a subview of its own, calling from another thread).       *)

\* Besides the call's inputs and result, `last` remembers what the call
\* found and did: the operation that succeeded on the same window just
\* before it (after), the backdrops that window held (before), and whether
\* the call changed any window's attributes or views (changed).
NoCall ==
  [op |-> "none", tag |-> "none", ptr |-> 0, color |-> None, effect |-> NoEffect,
   main |-> TRUE, res |-> Ok, calls |-> <<>>, os_calls |-> <<>>,
   after |-> "none", before |-> {}, changed |-> FALSE]

Init ==
  /\ target_os \in TargetOses
  /\ build \in (IF target_os = "windows" THEN Builds ELSE {0})
  /\ blur_gap_fails \in (IF target_os = "windows" /\ build > WIN7_BUILD
                                                  /\ build < MODERN_BUILD
                         THEN BOOLEAN ELSE {FALSE})
  /\ on_main_thread = TRUE
  /\ windows = [p \in Ptrs |-> NoBackdrop]
  /\ views = [p \in Ptrs |-> <<AppView>>]
  /\ last = NoCall

Call(op, window, color, effect, out) ==
  /\ windows' = out.windows
  /\ views' = out.views
  /\ last' = [op |-> op, tag |-> window.tag, ptr |-> window.ptr, color |-> color,
              effect |-> effect, main |-> on_main_thread, res |-> out.res,
              calls |-> out.calls, os_calls |-> out.os_calls,
              after |-> IF last.res.kind = "Ok" /\ last.ptr = window.ptr
                        THEN last.op ELSE "none",
              before |-> BackdropsSet(window.ptr),
              changed |-> (out.windows # windows \/ out.views # views)]
  /\ UNCHANGED <<target_os, build, blur_gap_fails, on_main_thread>>

ApplyBlurCall(w, c) == Call("apply_blur", w, c, NoEffect, apply_blur(w, c))

ClearBlurCall(w) == Call("clear_blur", w, None, NoEffect, clear_blur(w))

ApplyAcrylicCall(w, c) == Call("apply_acrylic", w, c, NoEffect, apply_acrylic(w, c))

ClearAcrylicCall(w) == Call("clear_acrylic", w, None, NoEffect, clear_acrylic(w))

ApplyMicaCall(w) == Call("apply_mica", w, None, NoEffect, apply_mica(w))

ClearMicaCall(w) == Call("clear_mica", w, None, NoEffect, clear_mica(w))

ApplyVibrancyCall(w, m) == Call("apply_vibrancy", w, None, m, apply_vibrancy(w, m))

ApplyBlur == \E w \in Handles, c \in OptColors : ApplyBlurCall(w, c)

ClearBlur == \E w \in Handles : ClearBlurCall(w)

ApplyAcrylic == \E w \in Handles, c \in OptColors : ApplyAcrylicCall(w, c)

ClearAcrylic == \E w \in Handles : ClearAcrylicCall(w)

ApplyMica == \E w \in Handles : ApplyMicaCall(w)

ClearMica == \E w \in Handles : ClearMicaCall(w)

ApplyVibrancy == \E w \in Handles, m \in Materials : ApplyVibrancyCall(w, m)

\* The application adds a view of its own on top of the content view.
AddSubview ==
  /\ target_os = "macos"
  /\ \E p \in Ptrs :
       /\ Len(views[p]) < MaxSubviews
       /\ views' = [views EXCEPT ![p] = Append(@, AppView)]
  /\ UNCHANGED <<target_os, build, blur_gap_fails, on_main_thread, windows, last>>

\* The caller goes on from another thread (or back on the main thread).
SwitchThread ==
  /\ target_os = "macos"
  /\ on_main_thread' = ~on_main_thread
  /\ UNCHANGED <<target_os, build, blur_gap_fails, windows, views, last>>

Next ==
  \/ ApplyBlur
  \/ ClearBlur
  \/ ApplyAcrylic
  \/ ClearAcrylic
  \/ ApplyMica
  \/ ClearMica
  \/ ApplyVibrancy
  \/ AddSubview
  \/ SwitchThread

Spec == Init /\ [][Next]_vars

(* The colour-taking operations alone, on one window of a Windows target,  *)
(* over every colour whose channels are among ChannelValues.               *)

ChannelValues == {0, 18, 125, 255}

WideColors ==
  {<<r, g, b, a>> : r \in ChannelValues, g \in ChannelValues,
                    b \in ChannelValues, a \in ChannelValues}

Window1 == [tag |-> "Win32", ptr |-> 1]

InitColor == Init /\ target_os = "windows"

ApplyBlurColor == \E c \in {None} \cup WideColors : ApplyBlurCall(Window1, c)

ApplyAcrylicColor == \E c \in {None} \cup WideColors : ApplyAcrylicCall(Window1, c)

NextColor ==
  \/ ApplyBlurColor
  \/ ApplyAcrylicColor

SpecColor == InitColor /\ [][NextColor]_vars

----------------------------------------------------------------------------
(* Properties *)

WindowsOps ==
  {"apply_blur", "clear_blur", "apply_acrylic", "clear_acrylic",
   "apply_mica", "clear_mica"}

LastRouted ==
  \/ last.op \in WindowsOps /\ target_os = "windows" /\ last.tag = "Win32"
  \/ last.op = "apply_vibrancy" /\ target_os = "macos" /\ last.tag = "AppKit"

\* C1: a Windows operation called with a handle that is not Win32, or on
\* a target other than Windows, returns UnsupportedPlatform; so does
\* apply_vibrancy with a handle that is not AppKit or on a target other
\* than macOS; on a target with neither adapter all seven operations do,
\* whatever the handle.
C1_UnsupportedPlatform ==
  /\ (last.op \in WindowsOps /\ (last.tag # "Win32" \/ target_os # "windows"))
       => last.res.kind = "UnsupportedPlatform"
  /\ (last.op = "apply_vibrancy" /\ (last.tag # "AppKit" \/ target_os # "macos"))
       => last.res.kind = "UnsupportedPlatform"
  /\ (last.op \in OpNames /\ target_os = "linux")
       => last.res.kind = "UnsupportedPlatform"

C1_Witness ==
  /\ target_os = "windows"
  /\ last.op = "apply_mica"
  /\ last.tag = "AppKit"
  /\ build = MICA_BUILD
  /\ last.res.kind = "UnsupportedPlatform"

\* C2: on a Win32 handle on Windows, apply_acrylic returns
\* UnsupportedPlatformVersion exactly when the build is below the modern
\* threshold, and apply_mica exactly when it is below the first
\* Mica-capable build; below the threshold the result is never Ok.
C2_VersionGate ==
  (target_os = "windows" /\ last.tag = "Win32") =>
    /\ last.op = "apply_acrylic" =>
         /\ (build < MODERN_BUILD) <=> (last.res.kind = "UnsupportedPlatformVersion")
         /\ (build < MODERN_BUILD) => last.res.kind # "Ok"
    /\ last.op = "apply_mica" =>
         /\ (build < MICA_BUILD) <=> (last.res.kind = "UnsupportedPlatformVersion")
         /\ (build < MICA_BUILD) => last.res.kind # "Ok"

C2_Witness ==
  /\ target_os = "windows"
  /\ last.tag = "Win32"
  /\ last.op = "apply_mica"
  /\ build = MICA_BUILD - 1
  /\ last.res.kind = "UnsupportedPlatformVersion"

EffectOf(op) ==
  CASE op = "apply_blur" -> "blur"
    [] op = "apply_acrylic" -> "acrylic"
    [] op = "apply_mica" -> "mica"
    [] OTHER -> "none"

\* `second` succeeded right after `first` had succeeded on the same window.
FollowedBy(first, second) ==
  /\ last.after = first
  /\ last.op = second
  /\ last.res.kind = "Ok"

C4_NotMainThread ==
  (/\ last.op = "apply_vibrancy"
   /\ target_os = "macos"
   /\ last.tag = "AppKit"
   /\ ~last.main)
  => /\ last.res.kind = "NotMainThread"
     /\ ~last.changed
     /\ last.os_calls = <<>>

C4_Witness ==
  /\ target_os = "macos"
  /\ last.op = "apply_vibrancy"
  /\ last.tag = "AppKit"
  /\ ~last.main
  /\ last.res.kind = "NotMainThread"
  /\ ~last.changed
  /\ \A v \in {views[last.ptr][i] : i \in 1..Len(views[last.ptr])} : ~IsVibrant(v)

ClearSupported(op) ==
  CASE op = "clear_blur" -> build = WIN7_BUILD \/ build >= MODERN_BUILD
    [] op = "clear_acrylic" -> build >= MODERN_BUILD
    [] op = "clear_mica" -> build >= MICA_BUILD

ClearOps == {"clear_blur", "clear_acrylic", "clear_mica"}

\* A clear operation was called with a Win32 handle on Windows for a window
\* that held no backdrop.
ClearedBareWindow ==
  /\ last.op \in ClearOps
  /\ target_os = "windows"
  /\ last.tag = "Win32"
  /\ last.before = {}

\* C6 as stated: every clear operation called with a Win32 handle on a
\* window with no effect applied returns Ok and leaves the state unchanged.
C6_Original ==
  ClearedBareWindow => (last.res.kind = "Ok" /\ ~last.changed)

\* C6 as amended: a clear operation called with a Win32 handle on a window
\* with no effect applied leaves the state unchanged; it returns Ok when
\* the build supports the effect (blur on Windows 7 and from the modern
\* build on, acrylic from the modern build on, mica from the first
\* Mica-capable build on); clear_acrylic and clear_mica below their
\* threshold return UnsupportedPlatformVersion.
C6_ClearNoEffect ==
  ClearedBareWindow =>
    /\ ClearSupported(last.op) => last.res.kind = "Ok"
    /\ (last.op \in {"clear_acrylic", "clear_mica"} /\ ~ClearSupported(last.op))
         => last.res.kind = "UnsupportedPlatformVersion"
    /\ ~last.changed
    /\ BackdropsSet(last.ptr) = {}

C6_Witness ==
  /\ ClearedBareWindow
  /\ last.op = "clear_blur"
  /\ last.after = "none"
  /\ last.res.kind = "Ok"
  /\ \A p \in Ptrs : windows[p] = NoBackdrop

\* The operations a message names, among the seven.
NamedIn(msg) == {msg[i] : i \in 1..Len(msg)} \cap OpNames

Foreign == [tag |-> "Xlib", ptr |-> 1]

\* The message each operation gives for a handle of neither adapter.
UnsupportedMessage(op) ==
  CASE op = "apply_blur" -> fmt(apply_blur(Foreign, None).res)
    [] op = "clear_blur" -> fmt(clear_blur(Foreign).res)
    [] op = "apply_acrylic" -> fmt(apply_acrylic(Foreign, None).res)
    [] op = "clear_acrylic" -> fmt(clear_acrylic(Foreign).res)
    [] op = "apply_mica" -> fmt(apply_mica(Foreign).res)
    [] op = "clear_mica" -> fmt(clear_mica(Foreign).res)
    [] op = "apply_vibrancy" -> fmt(apply_vibrancy(Foreign, "Dark").res)

\* C7: an UnsupportedPlatform error displays a message that names the
\* operation that was called and no other operation, and no two operations
\* give the same message.
C7_MessageNamesOperation ==
  /\ last.res.kind = "UnsupportedPlatform" =>
       /\ NamedIn(fmt(last.res)) = {last.op}
       /\ fmt(last.res) = UnsupportedMessage(last.op)
  /\ \A o1, o2 \in OpNames : o1 # o2 => UnsupportedMessage(o1) # UnsupportedMessage(o2)

C7_Witness ==
  /\ last.op = "clear_mica"
  /\ last.res.kind = "UnsupportedPlatform"
  /\ NamedIn(fmt(last.res)) = {"clear_mica"}

VibrantAt(p) == {i \in 1..Len(views[p]) : IsVibrant(views[p][i])}

\* C8: after a successful apply_vibrancy the window's content view holds
\* exactly one vibrancy view, it is the first subview and has the material
\* of that call; no window ever holds two vibrancy views.
C8_OneVibrancyView ==
  /\ \A p \in Ptrs : Cardinality(VibrantAt(p)) <= 1
  /\ (last.op = "apply_vibrancy" /\ last.res.kind = "Ok") =>
       /\ VibrantAt(last.ptr) = {1}
       /\ views[last.ptr][1].material = last.effect

C8_Witness ==
  /\ FollowedBy("apply_vibrancy", "apply_vibrancy")
  /\ last.os_calls[1] = "setMaterial"
  /\ last.effect = "Dark"
  /\ Len(views[last.ptr]) = MaxSubviews + 1
  /\ VibrantAt(last.ptr) = {1}

AdapterOf(op) ==
  CASE op = "apply_blur" -> "windows::apply_blur"
    [] op = "clear_blur" -> "windows::clear_blur"
    [] op = "apply_acrylic" -> "windows::apply_acrylic"
    [] op = "clear_acrylic" -> "windows::clear_acrylic"
    [] op = "apply_mica" -> "windows::apply_mica"
    [] op = "clear_mica" -> "windows::clear_mica"
    [] op = "apply_vibrancy" -> "macos::apply_vibrancy"

\* C9: each facade operation, on a matching handle, delegates exactly once
\* to the adapter function of the same name with the caller's pointer and
\* parameters and returns what that function returned; on any other handle
\* it delegates to nothing, makes no OS call and changes nothing.
C9_PureRouting ==
  last.op \in OpNames =>
    IF LastRouted
    THEN last.calls = <<[fn |-> AdapterOf(last.op), ptr |-> last.ptr,
                         color |-> last.color, effect |-> last.effect,
                         ret |-> last.res]>>
    ELSE /\ last.calls = <<>>
         /\ last.os_calls = <<>>
         /\ ~last.changed

C9_Witness ==
  /\ target_os = "windows"
  /\ last.op = "apply_blur"
  /\ last.calls = <<[fn |-> "windows::apply_blur", ptr |-> 2,
                     color |-> <<255, 0, 64, 1>>, effect |-> NoEffect, ret |-> Ok]>>
  /\ windows[2].accent = "blur"
  /\ windows[2].accent_color = <<255, 0, 64, 1>>
  /\ windows[1] = NoBackdrop

====
